---- MODULE Spec2Model ----
(***************************************************************************)
(* gpyconf/events.py: the EventRegister dispatcher, its GEventRegister     *)
(* subclass and the GSignals mixin.                                        *)
(*                                                                         *)
(* One dispatcher object is modelled in full.  Its class is chosen in Init. *)
(* Strings of the program (event names, positional arguments) are          *)
(* sequences of characters, so that str.replace is computed.               *)
(***************************************************************************)
EXTENDS Naturals, Sequences, FiniteSets

VARIABLES
    gsignals,             \* TRUE: the register is the GEventRegister of a GSignals object
    strict,               \* EventRegister.strict
    __events__,           \* EventRegister.__events__ (the allow-list; <<>> when absent)
    events,               \* EventRegister.events: name -> list of callbacks
    all_events_listener,  \* EventRegister.all_events_listener
    lazy,                 \* callback.__dict__['lazy'], for the callbacks that have it
    last,                 \* outcome of the latest register_event call, as its caller sees it
    stack,                \* the running emit calls, innermost last
    lastattr,             \* outcome of the latest @events.<attr> registration, as its caller sees it
    klass,                \* the dispatcher's class: its __events__ as declared, the keys of its
                          \* __gsignals__, and its __events__ list as it is now
    other,                \* a second GSignals object of the same class: its register's __events__
    added,                \* the names handed to add_event / add_events of the dispatcher, in order
    chain,                \* a configuration class: the fields each class of its inheritance
                          \* chain declares, most-base class first
    config,               \* the instance of that class: its fields mapping with current values
    storage,              \* the persistence backend: field name -> value written, or ABSENT
    saved,                \* the fields mapping as the instance held it when save() last ran
    body,                 \* what each callback does when it is invoked
    registered            \* the register_event calls that callbacks made during the
                          \* emission in progress

\* The configuration, which the dispatcher never touches
configuration == <<chain, config, storage, saved>>

\* What callbacks do beyond returning
reentrancy == <<body, registered>>

\* The variables that register_event and emit never touch
others == <<lastattr, klass, other, added, configuration, reentrancy>>

vars == <<gsignals, strict, __events__, events, all_events_listener, lazy, last, stack, others>>

----------------------------------------------------------------------------
(* Bounds and input domains *)

MaxRegs == 3

\* Registrations in the runs that compare the two ways of registering
MaxAttrRegs == 2

\* Registrations, and names added, in the runs that add events to GSignals objects
MaxSignalRegs == 1
MaxAdded == 2

Callbacks == {"A", "B", "C"}

ALL == <<"a", "l", "l">>
FOO_BAR == <<"f", "o", "_", "b">>
FOO_HYPHEN_BAR == <<"f", "o", "-", "b">>

Names == {ALL, FOO_BAR, FOO_HYPHEN_BAR}

SELF == <<"s", "e", "l", "f">>

ArgTuples == {<<>>, <<(<<"4", "2">>)>>}

\* The classes a dispatcher is constructed from:
\*   EventRegister itself, strict subclasses of it (the docstring's
\*   MyStrictEvents), and subclasses of GSignals.
Classes ==
    { [base |-> "EventRegister", declared |-> FALSE, events |-> <<>>, keys |-> <<>>],
      [base |-> "EventRegister", declared |-> TRUE,  events |-> <<FOO_BAR>>, keys |-> <<>>],
      [base |-> "EventRegister", declared |-> TRUE,  events |-> <<ALL, FOO_HYPHEN_BAR>>, keys |-> <<>>],
      [base |-> "GSignals", declared |-> TRUE, events |-> <<FOO_HYPHEN_BAR>>, keys |-> <<>>],
      [base |-> "GSignals", declared |-> TRUE, events |-> <<FOO_HYPHEN_BAR>>, keys |-> <<FOO_BAR>>] }

----------------------------------------------------------------------------
(* Helpers *)

Range(s) == {s[i] : i \in DOMAIN s}

NoCall == [event |-> <<>>, callback |-> "", lazy |-> FALSE, raised |-> FALSE, called |-> FALSE]

NoAttr == [attr |-> <<>>, callback |-> "", form |-> "", lazy |-> FALSE,
           outcome |-> "", returned |-> "", called |-> FALSE]

\* Configuration fields: the names and field types of the inheritance test
FieldNames == {"field1_from_superclass", "field1_from_superclass2", "field1_from_subclass"}
FieldTypes == {"IntegerField", "CharField", "FloatField"}
ABSENT == "<absent>"

\* A callback that only returns
Plain == [kind |-> "plain", event |-> <<>>, callback |-> "", lazy |-> FALSE]

NoObject == [constructed |-> FALSE, events |-> <<>>, added |-> <<>>]

TotalRegs ==
    LET RECURSIVE Sum(_)
        Sum(S) == IF S = {} THEN 0
                  ELSE LET k == CHOOSE x \in S : TRUE
                       IN Len(events[k]) + Sum(S \ {k})
    IN Len(all_events_listener) + Sum(DOMAIN events)

\* str.replace('_', '-')
replace(s) == [i \in DOMAIN s |-> IF s[i] = "_" THEN "-" ELSE s[i]]

----------------------------------------------------------------------------
(* Construction *)

\* GSignals.__init__: events = self.__events__, extended by the keys of
\* __gsignals__ when that is not None.
GSignals_init(cls) == cls.events \o cls.keys

\* The class after GSignals.__init__ has run: events += self.__gsignals__.keys()
\* extends the list of the class in place
class_after_init(cls) ==
    [declared |-> cls.events, keys |-> cls.keys,
     events |-> IF cls.base = "GSignals" THEN GSignals_init(cls) ELSE cls.events]

\* EventRegister.__init__ (and GEventRegister.__init__, which hands it the list)
construct(cls) ==
    /\ klass = class_after_init(cls)
    /\ gsignals = (cls.base = "GSignals")
    /\ strict = cls.declared
    /\ __events__ = IF cls.base = "GSignals" THEN GSignals_init(cls) ELSE cls.events
    /\ events = <<>>
    /\ all_events_listener = <<>>
    /\ lazy = <<>>
    /\ last = NoCall
    /\ stack = <<>>

\* Nothing outside the dispatcher has happened yet
OthersInit ==
    /\ lastattr = NoAttr
    /\ other = NoObject
    /\ added = <<>>
    /\ body = [c \in Callbacks |-> Plain]
    /\ registered = <<>>

\* No configuration class is defined
NoConfiguration ==
    /\ chain = <<>>
    /\ config = [fields |-> <<>>, fresh |-> FALSE, error |-> ""]
    /\ storage = [name \in FieldNames |-> ABSENT]
    /\ saved = [done |-> FALSE, fields |-> <<>>]

Init ==
    /\ \E cls \in Classes : construct(cls)
    /\ OthersInit
    /\ NoConfiguration

----------------------------------------------------------------------------
(* register_event *)

\* line 112: callback.__dict__['lazy'] = lazy
set_lazy(flags, callback, lz) ==
    [c \in DOMAIN flags \cup {callback} |-> IF c = callback THEN lz ELSE flags[c]]

\* The membership test inverted
not_allowed_inverted(event) == strict /\ event \in Range(__events__)

\* line 133 and line 115: self.strict and event not in self.__events__
not_allowed(event) == strict /\ event \notin Range(__events__)

\* line 113-116: the branch of register_event that raises InvalidEvent
register_raises(event) == event # ALL /\ not_allowed(event)

\* line 118: self.events[event].append(callback) on a defaultdict(list)
append_event(evs, event, callback) ==
    [k \in DOMAIN evs \cup {event} |->
        IF k = event
        THEN Append(IF event \in DOMAIN evs THEN evs[event] ELSE <<>>, callback)
        ELSE evs[k]]

\* lines 112-118: what register_event does to the register
register_lists(event, callback, lz) ==
    /\ lazy' = set_lazy(lazy, callback, lz)
    /\ IF event = ALL
       THEN /\ all_events_listener' = Append(all_events_listener, callback)
            /\ UNCHANGED events
       ELSE IF register_raises(event)
       THEN UNCHANGED <<events, all_events_listener>>
       ELSE /\ events' = append_event(events, event, callback)
            /\ UNCHANGED all_events_listener
    /\ last' = [event |-> event, callback |-> callback, lazy |-> lz,
                raised |-> register_raises(event), called |-> TRUE]

\* register_event called while no emit is running
register_event(event, callback, lz) ==
    /\ register_lists(event, callback, lz)
    /\ UNCHANGED <<gsignals, strict, __events__, stack>>

\* A caller's register_event(event, callback, lazy) on an EventRegister
RegisterEvent ==
    /\ ~gsignals
    /\ stack = <<>>
    /\ TotalRegs < MaxRegs
    /\ \E event \in Names, callback \in Callbacks, lz \in BOOLEAN :
          register_event(event, callback, lz)
    /\ UNCHANGED others

\* GSignals.connect(signal, callback, lazy)
connect ==
    /\ gsignals
    /\ stack = <<>>
    /\ TotalRegs < MaxRegs
    /\ \E signal \in Names, callback \in Callbacks, lz \in BOOLEAN :
          register_event(signal, callback, lz)
    /\ UNCHANGED others

\* The replacement done by every register, not only by GEventRegister
getattr_event_always_replace(attr) == replace(attr)

\* GEventRegister.__getattr__: the attribute name with '_' replaced by '-';
\* EventRegister.__getattr__: the attribute name itself
getattr_event(attr) == IF gsignals THEN replace(attr) ELSE attr

\* @events.<attr> and @events.<attr>(lazy=lz): EventRegister.__getattr__
\* returns a decorator that calls register_event(event, func[, lazy])
AttrRegister ==
    /\ stack = <<>>
    /\ TotalRegs < MaxRegs
    /\ \E attr \in Names, callback \in Callbacks, lz \in BOOLEAN :
          register_event(getattr_event(attr), callback, lz)
    /\ UNCHANGED others

----------------------------------------------------------------------------
(* emit *)

Top == stack[Len(stack)]

SetTop(f) == [stack EXCEPT ![Len(stack)] = f]

\* GSignals.emit: self.events.emit(signal, self, *args)
gsignals_args(args) == <<SELF>> \o args

\* line 150: func(event, *args)
all_args(event, args) == <<event>> \o args

\* lines 133-136: the strict check, then lazy_callbacks = []
emit_frame(event, args) ==
    IF not_allowed(event)
    THEN [event |-> event, args |-> args, pc |-> "raised", exc |-> "InvalidEvent",
          i |-> 1, lazy_callbacks |-> <<>>, calls |-> <<>>]
    ELSE [event |-> event, args |-> args, pc |-> "events", exc |-> "",
          i |-> 1, lazy_callbacks |-> <<>>, calls |-> <<>>]

\* A caller's emit(event, *args) on an EventRegister
EmitCall ==
    /\ ~gsignals
    /\ stack = <<>>
    /\ \E event \in Names, args \in ArgTuples :
          stack' = Append(stack, emit_frame(event, args))
    /\ UNCHANGED <<gsignals, strict, __events__, events, all_events_listener, lazy, last>>
    /\ UNCHANGED others

\* A caller's GSignals.emit(signal, *args)
GSignalsEmit ==
    /\ gsignals
    /\ stack = <<>>
    /\ \E signal \in Names, args \in ArgTuples :
          stack' = Append(stack, emit_frame(signal, gsignals_args(args)))
    /\ UNCHANGED <<gsignals, strict, __events__, events, all_events_listener, lazy, last>>
    /\ UNCHANGED others

\* lines 138-143: one iteration of the loop over self.events[event]
events_step(f) ==
    IF f.event \in DOMAIN events /\ f.i <= Len(events[f.event])
    THEN LET func == events[f.event][f.i] IN
         IF lazy[func]
         THEN [f EXCEPT !.i = f.i + 1, !.lazy_callbacks = Append(f.lazy_callbacks, func)]
         ELSE [f EXCEPT !.i = f.i + 1,
                        !.calls = Append(f.calls, [func |-> func, args |-> f.args, via |-> "event"])]
    ELSE [f EXCEPT !.pc = "all", !.i = 1]

\* lines 146-150: one iteration of the loop over self.all_events_listener;
\* partial(event, func) has a str as its first argument and raises TypeError
all_step(f) ==
    IF f.i <= Len(all_events_listener)
    THEN LET func == all_events_listener[f.i] IN
         IF lazy[func]
         THEN [f EXCEPT !.pc = "raised", !.exc = "TypeError"]
         ELSE [f EXCEPT !.i = f.i + 1,
                        !.calls = Append(f.calls, [func |-> func, args |-> all_args(f.event, f.args),
                                                   via |-> "all"])]
    ELSE [f EXCEPT !.pc = "lazy", !.i = 1]

\* lines 152-153: one iteration of the loop over lazy_callbacks
lazy_step(f) ==
    IF f.i <= Len(f.lazy_callbacks)
    THEN [f EXCEPT !.i = f.i + 1,
                   !.calls = Append(f.calls, [func |-> f.lazy_callbacks[f.i], args |-> f.args,
                                              via |-> "lazy"])]
    ELSE [f EXCEPT !.pc = "done"]

EmitEvents ==
    /\ stack # <<>> /\ Top.pc = "events"
    /\ stack' = SetTop(events_step(Top))
    /\ UNCHANGED <<gsignals, strict, __events__, events, all_events_listener, lazy, last>>
    /\ UNCHANGED others

EmitAll ==
    /\ stack # <<>> /\ Top.pc = "all"
    /\ stack' = SetTop(all_step(Top))
    /\ UNCHANGED <<gsignals, strict, __events__, events, all_events_listener, lazy, last>>
    /\ UNCHANGED others

EmitLazy ==
    /\ stack # <<>> /\ Top.pc = "lazy"
    /\ stack' = SetTop(lazy_step(Top))
    /\ UNCHANGED <<gsignals, strict, __events__, events, all_events_listener, lazy, last>>
    /\ UNCHANGED others

\* emit returns, or its exception reaches the caller
EmitReturn ==
    /\ stack # <<>> /\ Top.pc \in {"done", "raised"}
    /\ stack' = SubSeq(stack, 1, Len(stack) - 1)
    /\ UNCHANGED <<gsignals, strict, __events__, events, all_events_listener, lazy, last>>
    /\ UNCHANGED others

----------------------------------------------------------------------------

Next ==
    \/ RegisterEvent
    \/ connect
    \/ AttrRegister
    \/ EmitCall
    \/ GSignalsEmit
    \/ EmitEvents
    \/ EmitAll
    \/ EmitLazy
    \/ EmitReturn

Spec == Init /\ [][Next]_vars

----------------------------------------------------------------------------
(* Attribute-style registration in detail: @events.<attr> and             *)
(* @events.<attr>(lazy=lz), for every attribute name                       *)

INITIALIZED == <<"i", "n", "i", "t", "i", "a", "l", "i", "z", "e", "d">>
DUNDER_EVENTS == <<"_", "_", "e", "v", "e", "n", "t", "s", "_", "_">>

AttrNames == Names \cup {INITIALIZED, DUNDER_EVENTS}

\* The names among AttrNames that normal attribute lookup finds, so that
\* __getattr__ is not called: the class attribute initialized = False
\* (line 78), and the list __events__ that __init__ sets on a strict register
OwnAttributes == {INITIALIZED} \cup (IF strict THEN {DUNDER_EVENTS} ELSE {})

\* events.<attr>: an own attribute (a bool or a list, neither callable), the
\* AttributeError of lines 88-89, or the closure register_event of line 91
attr_lookup(attr) ==
    IF attr \in OwnAttributes THEN "TypeError"
    ELSE IF attr = DUNDER_EVENTS THEN "AttributeError"
    ELSE "decorator"

\* line 93: register_event(event, args[0]) for @events.<attr>;
\* line 97: register_event(event, func, *args, **kwargs) for @events.<attr>(lazy=lz)
decorator_lazy(form, lz) == IF form = "direct" THEN FALSE ELSE lz

Decorate ==
    /\ stack = <<>>
    /\ TotalRegs < MaxAttrRegs
    /\ \E attr \in AttrNames, callback \in Callbacks, form \in {"direct", "call"}, lz \in BOOLEAN :
          /\ form = "direct" => ~lz
          /\ IF attr_lookup(attr) = "decorator"
             THEN /\ register_event(getattr_event(attr), callback, decorator_lazy(form, lz))
                  /\ lastattr' =
                        [attr |-> attr, callback |-> callback, form |-> form, lazy |-> lz,
                         outcome |-> IF register_raises(getattr_event(attr))
                                     THEN "InvalidEvent" ELSE "registered",
                         returned |-> IF register_raises(getattr_event(attr))
                                      THEN "" ELSE callback,
                         called |-> TRUE]
             ELSE /\ lastattr' =
                        [attr |-> attr, callback |-> callback, form |-> form, lazy |-> lz,
                         outcome |-> attr_lookup(attr), returned |-> "", called |-> TRUE]
                  /\ UNCHANGED <<gsignals, strict, __events__, events, all_events_listener,
                                 lazy, last, stack>>
    /\ UNCHANGED <<klass, other, added, configuration, reentrancy>>

\* A caller's register_event(event, callback, lazy), for every name
RegisterAny ==
    /\ stack = <<>>
    /\ TotalRegs < MaxAttrRegs
    /\ \E event \in AttrNames, callback \in Callbacks, lz \in BOOLEAN :
          register_event(event, callback, lz)
    /\ lastattr' = NoAttr
    /\ UNCHANGED <<klass, other, added, configuration, reentrancy>>

NextAttr ==
    \/ Decorate
    \/ RegisterAny

\* The registers that are no GEventRegister
InitAttr ==
    /\ \E cls \in Classes : cls.base = "EventRegister" /\ construct(cls)
    /\ OthersInit
    /\ NoConfiguration

SpecAttr == InitAttr /\ [][NextAttr]_vars

----------------------------------------------------------------------------
(* GSignals objects: add_event, add_events, and a second object of the     *)
(* same class                                                              *)

\* The assignment that drops what the list held
extend_list_assign(list, names) == names

\* lines 205 and 209: self.events.__events__ += ...
extend_list(list, names) == list \o names

\* The register holding the list of the class itself
class_list_after_add_aliased(class_list, names) == class_list \o names

\* line 83: self.__events__ = list(self.__events__) gives the register a copy,
\* so the += of lines 205 and 209 leaves the list of the class as it is
class_list_after_add(class_list, names) == class_list

AddedSoFar == Len(added) + Len(other.added)

\* GSignals.add_event(event) on the dispatcher
add_event ==
    /\ gsignals
    /\ stack = <<>>
    /\ AddedSoFar < MaxAdded
    /\ \E event \in Names :
          /\ __events__' = extend_list(__events__, <<event>>)
          /\ added' = added \o <<event>>
          /\ klass' = [klass EXCEPT !.events = class_list_after_add(@, <<event>>)]
    /\ UNCHANGED <<gsignals, strict, events, all_events_listener, lazy, last, stack,
                   lastattr, other, configuration, reentrancy>>

\* GSignals.add_events(events) on the dispatcher, with a list of two names
add_events ==
    /\ gsignals
    /\ stack = <<>>
    /\ AddedSoFar + 1 < MaxAdded
    /\ \E e1 \in Names, e2 \in Names :
          /\ __events__' = extend_list(__events__, <<e1, e2>>)
          /\ added' = added \o <<e1, e2>>
          /\ klass' = [klass EXCEPT !.events = class_list_after_add(@, <<e1, e2>>)]
    /\ UNCHANGED <<gsignals, strict, events, all_events_listener, lazy, last, stack,
                   lastattr, other, configuration, reentrancy>>

\* GSignals.__init__ of a second object of the class: events += keys on the
\* list of the class, of which EventRegister.__init__ then takes a copy
ConstructOther ==
    /\ gsignals
    /\ stack = <<>>
    /\ ~other.constructed
    /\ klass' = [klass EXCEPT !.events = GSignals_init(klass)]
    /\ other' = [constructed |-> TRUE, events |-> GSignals_init(klass), added |-> <<>>]
    /\ UNCHANGED <<gsignals, strict, __events__, events, all_events_listener, lazy, last, stack,
                   lastattr, added, configuration, reentrancy>>

\* GSignals.add_event(event) on the second object
OtherAddEvent ==
    /\ other.constructed
    /\ stack = <<>>
    /\ AddedSoFar < MaxAdded
    /\ \E event \in Names :
          /\ other' = [other EXCEPT !.events = extend_list(@, <<event>>),
                                    !.added = @ \o <<event>>]
          /\ klass' = [klass EXCEPT !.events = class_list_after_add(@, <<event>>)]
    /\ UNCHANGED <<gsignals, strict, __events__, events, all_events_listener, lazy, last, stack,
                   lastattr, added, configuration, reentrancy>>

\* GSignals.connect, in the runs that add events
SignalConnect == TotalRegs < MaxSignalRegs /\ connect

NextSignals ==
    \/ SignalConnect
    \/ GSignalsEmit
    \/ EmitEvents
    \/ EmitAll
    \/ EmitLazy
    \/ EmitReturn
    \/ add_event
    \/ add_events
    \/ ConstructOther
    \/ OtherAddEvent

InitSignals ==
    /\ \E cls \in Classes : cls.base = "GSignals" /\ construct(cls)
    /\ OthersInit
    /\ NoConfiguration

SpecSignals == InitSignals /\ [][NextSignals]_vars

----------------------------------------------------------------------------
(* Configuration: the field registry, as spec.md describes it (its code is *)
(* not part of the sources)                                                *)

\* Classes in an inheritance chain
MaxLevels == 3

\* The values a field type accepts, and the one it starts with
Domain(type) ==
    IF type = "IntegerField" THEN {"0", "42"}
    ELSE IF type = "CharField" THEN {"", "hello world"}
    ELSE {"0.0", "3.1415926536"}

default(type) ==
    IF type = "IntegerField" THEN "0"
    ELSE IF type = "CharField" THEN ""
    ELSE "0.0"

RawValues == UNION {Domain(type) : type \in FieldTypes}

\* validate(raw) of a field type: the value, or ValidationError
validate(type, raw) == raw \in Domain(type)

Declaration(name, type) == [name |-> name, type |-> type]

\* Class bodies: the three of the inheritance test, an empty one, one that
\* declares field1_from_superclass again with another type, one with two fields
ClassBodies ==
    { <<>>,
      <<Declaration("field1_from_superclass", "IntegerField")>>,
      <<Declaration("field1_from_superclass2", "CharField")>>,
      <<Declaration("field1_from_subclass", "FloatField")>>,
      <<Declaration("field1_from_superclass", "CharField")>>,
      <<Declaration("field1_from_superclass2", "CharField"),
        Declaration("field1_from_superclass", "IntegerField")>> }

Chains == UNION {[1..n -> ClassBodies] : n \in 1..MaxLevels}

\* Position of the field called name in an ordered mapping, 0 if there is none
IndexOf(fields, name) ==
    IF \E i \in DOMAIN fields : fields[i].name = name
    THEN CHOOSE i \in DOMAIN fields : fields[i].name = name
    ELSE 0

Field(d, level) ==
    [name |-> d.name, type |-> d.type, level |-> level, value |-> default(d.type)]

\* The ancestor's field kept when a subclass declares the name again
declare_keep_ancestor(fields, d, level) ==
    IF IndexOf(fields, d.name) = 0
    THEN Append(fields, Field(d, level))
    ELSE fields

\* spec.md 4.1: a subclass-declared field overrides a same-named ancestor
\* field (same name replaces, not duplicates)
declare(fields, d, level) ==
    IF IndexOf(fields, d.name) = 0
    THEN Append(fields, Field(d, level))
    ELSE [fields EXCEPT ![IndexOf(fields, d.name)] = Field(d, level)]

RECURSIVE declare_body(_, _, _, _)
declare_body(fields, decls, level, k) ==
    IF k > Len(decls) THEN fields
    ELSE declare_body(declare(fields, decls[k], level), decls, level, k + 1)

\* spec.md 4.1, fields property: gathered from the full ancestor chain,
\* most-base-first
RECURSIVE collect_fields(_, _, _)
collect_fields(ch, level, fields) ==
    IF level > Len(ch) THEN fields
    ELSE collect_fields(ch, level + 1, declare_body(fields, ch[level], level, 1))

fields_of(ch) == collect_fields(ch, 1, <<>>)

\* save() that writes the fields of the leaf class only
write_fields_own_class(store, fields) ==
    [name \in FieldNames |->
        IF IndexOf(fields, name) # 0 /\ fields[IndexOf(fields, name)].level = Len(chain)
        THEN fields[IndexOf(fields, name)].value
        ELSE store[name]]

\* spec.md 4.1, save(): writes every field's current value to persistent
\* storage keyed by field name
write_fields(store, fields) ==
    [name \in FieldNames |->
        IF IndexOf(fields, name) # 0
        THEN fields[IndexOf(fields, name)].value
        ELSE store[name]]

\* spec.md 4.1: construction loads each field's value from storage, falling
\* back to the default for a field absent from storage
load_fields(store, fields) ==
    [i \in DOMAIN fields |->
        [fields[i] EXCEPT !.value =
            IF store[fields[i].name] = ABSENT THEN default(fields[i].type)
            ELSE store[fields[i].name]]]

Configuration_init(ch, store) ==
    [fields |-> load_fields(store, fields_of(ch)), fresh |-> TRUE, error |-> ""]

\* The dispatchers, which the configuration never touches
dispatchers == <<gsignals, strict, __events__, events, all_events_listener, lazy, last, stack,
                 lastattr, klass, other, added, reentrancy>>

\* config.<field_name> = raw
SetField ==
    \E i \in DOMAIN config.fields, raw \in RawValues :
        /\ IF validate(config.fields[i].type, raw)
           THEN config' = [config EXCEPT !.fields[i].value = raw,
                                         !.fresh = FALSE, !.error = ""]
           ELSE config' = [config EXCEPT !.error = "ValidationError"]
        /\ UNCHANGED <<chain, storage, saved, dispatchers>>

\* config.save()
save ==
    /\ storage' = write_fields(storage, config.fields)
    /\ saved' = [done |-> TRUE, fields |-> config.fields]
    /\ config' = [config EXCEPT !.error = ""]
    /\ UNCHANGED <<chain, dispatchers>>

\* del config; config = <the same class>()
Reinstantiate ==
    /\ config' = Configuration_init(chain, storage)
    /\ UNCHANGED <<chain, storage, saved, dispatchers>>

NextConfig ==
    \/ SetField
    \/ save
    \/ Reinstantiate

InitConfig ==
    /\ construct(CHOOSE cls \in Classes : cls.base = "EventRegister" /\ cls.events = <<>>)
    /\ OthersInit
    /\ chain \in Chains
    /\ storage = [name \in FieldNames |-> ABSENT]
    /\ config = Configuration_init(chain, storage)
    /\ saved = [done |-> FALSE, fields |-> <<>>]

SpecConfig == InitConfig /\ [][NextConfig]_vars

----------------------------------------------------------------------------
(* Callbacks that call back into the register: emit and register_event     *)
(* from inside a running emit                                              *)

\* Registrations by the caller, nested emits, and registrations made by
\* callbacks, in the runs with such callbacks
MaxReentrantRegs == 3
MaxDepth == 2
MaxInEmit == 2

\* A callback whose body is events.emit(event)
Emitter(event) == [kind |-> "emit", event |-> event, callback |-> "", lazy |-> FALSE]

\* A callback whose body is events.register_event(event, callback, lazy)
Registrar(event, callback, lz) ==
    [kind |-> "register", event |-> event, callback |-> callback, lazy |-> lz]

Bodies ==
    { Plain,
      Emitter(FOO_HYPHEN_BAR),
      Registrar(FOO_BAR, "C", FALSE),
      Registrar(FOO_HYPHEN_BAR, "C", TRUE) }

\* The call that the step from frame f to frame f2 made, if it made one
Invoked(f, f2) == Len(f2.calls) > Len(f.calls)

\* An exception leaving a callback ends the emit that called it
raise_in(f, exc) == [f EXCEPT !.pc = "raised", !.exc = exc]

\* One iteration of a loop of emit (lines 138-153) whose callback may call
\* emit or register_event of the same register before it returns
run_callback(f2) ==
    LET b == IF Invoked(Top, f2) THEN body[f2.calls[Len(f2.calls)].func] ELSE Plain IN
    IF b.kind = "emit"
    THEN /\ Len(stack) < MaxDepth
         /\ stack' = Append(SetTop(f2), emit_frame(b.event, <<>>))
         /\ UNCHANGED <<events, all_events_listener, lazy, last, registered>>
    ELSE IF b.kind = "register"
    THEN /\ TotalRegs < MaxReentrantRegs + MaxInEmit
         /\ register_lists(b.event, b.callback, b.lazy)
         /\ stack' = SetTop(IF register_raises(b.event) THEN raise_in(f2, "InvalidEvent") ELSE f2)
         /\ registered' = Append(registered,
                [depth |-> Len(stack), event |-> b.event, callback |-> b.callback,
                 lazy |-> b.lazy, raised |-> register_raises(b.event),
                 via |-> f2.calls[Len(f2.calls)].via, at |-> Len(f2.calls)])
    ELSE /\ stack' = SetTop(f2)
         /\ UNCHANGED <<events, all_events_listener, lazy, last, registered>>

ReentrantEvents ==
    /\ stack # <<>> /\ Top.pc = "events"
    /\ run_callback(events_step(Top))
    /\ UNCHANGED <<gsignals, strict, __events__, body, lastattr, klass, other, added,
                   configuration>>

ReentrantAll ==
    /\ stack # <<>> /\ Top.pc = "all"
    /\ run_callback(all_step(Top))
    /\ UNCHANGED <<gsignals, strict, __events__, body, lastattr, klass, other, added,
                   configuration>>

ReentrantLazy ==
    /\ stack # <<>> /\ Top.pc = "lazy"
    /\ run_callback(lazy_step(Top))
    /\ UNCHANGED <<gsignals, strict, __events__, body, lastattr, klass, other, added,
                   configuration>>

\* The stack after its top frame has ended: an emit that raised inside a
\* callback raises in the emit that called the callback
unwind(stk) ==
    IF Len(stk) = 1 THEN <<>>
    ELSE IF stk[Len(stk)].pc = "raised"
    THEN [SubSeq(stk, 1, Len(stk) - 1) EXCEPT
            ![Len(stk) - 1] = raise_in(@, stk[Len(stk)].exc)]
    ELSE SubSeq(stk, 1, Len(stk) - 1)

\* emit returns or raises, to the callback that called it or to the caller
ReentrantReturn ==
    /\ stack # <<>> /\ Top.pc \in {"done", "raised"}
    /\ stack' = unwind(stack)
    /\ registered' = IF Len(stack) = 1 THEN <<>> ELSE registered
    /\ UNCHANGED <<gsignals, strict, __events__, events, all_events_listener, lazy, last,
                   body, lastattr, klass, other, added, configuration>>

\* register_event by the caller, in the runs with such callbacks
ReentrantRegister == TotalRegs < MaxReentrantRegs /\ RegisterEvent

NextReentrant ==
    \/ ReentrantRegister
    \/ EmitCall
    \/ ReentrantEvents
    \/ ReentrantAll
    \/ ReentrantLazy
    \/ ReentrantReturn

InitReentrant ==
    /\ construct(CHOOSE cls \in Classes : cls.base = "EventRegister" /\ cls.events = <<>>)
    /\ lastattr = NoAttr
    /\ other = NoObject
    /\ added = <<>>
    /\ body \in [Callbacks -> Bodies]
    /\ body["C"] = Plain
    /\ registered = <<>>
    /\ NoConfiguration

SpecReentrant == InitReentrant /\ [][NextReentrant]_vars

----------------------------------------------------------------------------
(* Vocabulary of the properties *)

Finished(f) == f.pc \in {"done", "raised"}

\* The emit calls that ran, i.e. were not rejected by the strict check
Performed(f) == Finished(f) /\ f.exc # "InvalidEvent"

Frames == Range(stack)

EventList(event) == IF event \in DOMAIN events THEN events[event] ELSE <<>>

NonLazyOf(list) == LET keep(c) == ~lazy[c] IN SelectSeq(list, keep)

LazyOf(list) == LET keep(c) == lazy[c] IN SelectSeq(list, keep)

CallsVia(f, vias) == LET keep(c) == c.via \in vias IN SelectSeq(f.calls, keep)

FuncsVia(f, vias) == LET cs == CallsVia(f, vias) IN [j \in DOMAIN cs |-> cs[j].func]

\* Every call of the first kind precedes every call of the second kind
Before(f, vias1, vias2) ==
    \A j, m \in DOMAIN f.calls :
        (f.calls[j].via \in vias1 /\ f.calls[m].via \in vias2) => j < m

RegisteredCallbacks ==
    Range(all_events_listener) \cup UNION {Range(events[k]) : k \in DOMAIN events}

----------------------------------------------------------------------------
(* C1 *)

\* C1: when emit(e) has ended, the callbacks of e it has invoked are exactly
\* the non-lazy callbacks registered for e, in registration order, followed
\* by the lazy callbacks registered for e, in registration order.
C1_EmitOrder ==
    \A f \in Frames :
        Finished(f) =>
            FuncsVia(f, {"event", "lazy"}) =
                NonLazyOf(EventList(f.event)) \o LazyOf(EventList(f.event))

----------------------------------------------------------------------------
(* C2 *)

\* C2: when an emit(e, *args) that was performed has ended, it has called
\* every non-lazy "all"-listener, in registration order, with (e, *args),
\* after every non-lazy callback of e and before any lazy callback.
C2_AllListenersCalled ==
    \A f \in Frames :
        Performed(f) =>
            /\ FuncsVia(f, {"all"}) = NonLazyOf(all_events_listener)
            /\ \A c \in Range(CallsVia(f, {"all"})) : c.args = <<f.event>> \o f.args
            /\ FuncsVia(f, {"event"}) = NonLazyOf(EventList(f.event))
            /\ Before(f, {"event"}, {"all"})
            /\ Before(f, {"all"}, {"lazy"})

----------------------------------------------------------------------------
(* C3 *)

\* C3: an emit(e) that was performed completes normally, and its last calls
\* are the lazy callbacks of e in registration order followed by the lazy
\* "all"-listeners, each once, after every immediate callback.
C3_LazyPhase ==
    \A f \in Frames :
        Performed(f) =>
            /\ f.pc = "done"
            /\ FuncsVia(f, {"lazy"}) =
                   LazyOf(EventList(f.event)) \o LazyOf(all_events_listener)
            /\ Before(f, {"event", "all"}, {"lazy"})

----------------------------------------------------------------------------
(* C4 *)

\* C4 as stated: on a strict dispatcher, register_event(name, cb) and
\* emit(name) raise InvalidEvent exactly for the names outside __events__.
C4_StrictRaisesOutsideList ==
    strict =>
        /\ last.called => (last.raised <=> last.event \notin Range(__events__))
        /\ \A f \in Frames : (f.exc = "InvalidEvent") <=> f.event \notin Range(__events__)

\* C4 amended: on a strict dispatcher, emit(name) raises InvalidEvent exactly
\* for the names outside __events__, and register_event(name, cb) raises
\* InvalidEvent exactly for the names outside __events__ other than "all".
C4_StrictRaisesExceptAll ==
    strict =>
        /\ last.called =>
              (last.raised <=> (last.event # ALL /\ last.event \notin Range(__events__)))
        /\ \A f \in Frames : (f.exc = "InvalidEvent") <=> f.event \notin Range(__events__)

\* A strict dispatcher without "all" in its list that has accepted a
\* registration of an allowed name and one under "all", has rejected a
\* registration, and has rejected an emit.
C4_Witness ==
    /\ strict
    /\ ALL \notin Range(__events__)
    /\ events # <<>>
    /\ all_events_listener # <<>>
    /\ last.called /\ last.raised
    /\ \E f \in Frames : f.exc = "InvalidEvent"

----------------------------------------------------------------------------
(* C5 *)

\* C5: registering under "all" never raises, and every emit that was
\* performed has called every registered "all"-listener with (e, *args).
C5_AllOnEveryEmission ==
    /\ (last.called /\ last.event = ALL) => ~last.raised
    /\ \A f \in Frames :
          Performed(f) =>
              \A c \in Range(all_events_listener) :
                  \E j \in DOMAIN f.calls :
                      /\ f.calls[j].func = c
                      /\ f.calls[j].args = <<f.event>> \o f.args

----------------------------------------------------------------------------
(* C6 *)

\* C6: on a non-strict dispatcher, an emit(e) that has ended while e has no
\* registration raised nothing, called no event-specific callback, and left
\* no entry for e in the registration mapping.
C6_EmitUnregisteredNoop ==
    ~strict =>
        \A f \in Frames :
            (Finished(f) /\ EventList(f.event) = <<>>) =>
                /\ f.exc = ""
                /\ CallsVia(f, {"event", "lazy"}) = <<>>
                /\ f.event \notin DOMAIN events

----------------------------------------------------------------------------
(* C7 *)

\* C7: a register_event call that raises InvalidEvent leaves the
\* registration lists unchanged and leaves the laziness of every callback
\* that is already registered as it was.
C7_RegisterAtomic ==
    [][(last' # last /\ last'.raised) =>
          /\ events' = events
          /\ all_events_listener' = all_events_listener
          /\ \A c \in RegisteredCallbacks : lazy'[c] = lazy[c]]_vars

----------------------------------------------------------------------------
(* C8 *)

\* C8: an emit that ends by raising an error of the dispatcher itself has
\* invoked no callback.
C8_EmitAtomic ==
    \A f \in Frames : f.pc = "raised" => f.calls = <<>>

----------------------------------------------------------------------------
(* C9 *)

\* C9: on the register of a GSignals object every registration is stored
\* under the normalized name, and an emit(e) that has completed has invoked
\* every callback registered under a name that normalizes to the same name
\* as e.
C9_NamesNormalized ==
    gsignals =>
        /\ \A k \in DOMAIN events : k = replace(k)
        /\ \A f \in Frames :
              f.pc = "done" =>
                  \A k \in DOMAIN events :
                      replace(k) = replace(f.event) =>
                          Range(events[k]) \subseteq
                              {c.func : c \in Range(CallsVia(f, {"event", "lazy"}))}

----------------------------------------------------------------------------
(* C10 *)

\* C10: every callback invoked by GSignals.emit gets the emitting object as
\* its first positional argument.
C10_SenderFirst ==
    gsignals =>
        \A f \in Frames :
            \A c \in Range(f.calls) : Len(c.args) >= 1 /\ c.args[1] = SELF

\* What the calls of GSignals.emit look like instead: an event-specific
\* callback, immediate or lazy, gets the emitting object first; an
\* "all"-listener gets the event name first and the emitting object second.
SenderFirstOfForwarded ==
    gsignals =>
        \A f \in Frames :
            \A c \in Range(f.calls) :
                IF c.via = "all"
                THEN Len(c.args) >= 2 /\ c.args[1] = f.event /\ c.args[2] = SELF
                ELSE Len(c.args) >= 1 /\ c.args[1] = SELF

----------------------------------------------------------------------------
(* C11 *)

\* The list that register_event(n, cb) appends to
ListFor(n) == IF n = ALL THEN all_events_listener ELSE EventList(n)

\* The state right after register_event(n, cb, lazy=L), as lines 112-118 leave it
SameAsRegisterEvent(n, cb, L) ==
    /\ last = [event |-> n, callback |-> cb, lazy |-> L,
               raised |-> (strict /\ n # ALL /\ n \notin Range(__events__)), called |-> TRUE]
    /\ lazy[cb] = L
    /\ IF last.raised
       THEN lastattr.outcome = "InvalidEvent"
       ELSE /\ ListFor(n) # <<>>
            /\ ListFor(n)[Len(ListFor(n))] = cb
            /\ lastattr.outcome = "registered"
            /\ lastattr.returned = cb

\* C11 as stated: on an EventRegister, for every name n, @events.n and
\* @events.n(lazy=L) leave the state register_event(n, callback, lazy=L)
\* leaves, and return the callback.
C11_AttrSameAsRegister ==
    (~gsignals /\ lastattr.called) =>
        SameAsRegisterEvent(lastattr.attr, lastattr.callback, lastattr.lazy)

\* C11 amended: the same, for every name n that is neither '__events__' nor
\* the name of an attribute the register already has.
C11_AttrSameAsRegisterUnlessOwn ==
    (~gsignals /\ lastattr.called /\ lastattr.attr \notin OwnAttributes \cup {DUNDER_EVENTS}) =>
        SameAsRegisterEvent(lastattr.attr, lastattr.callback, lastattr.lazy)

\* An EventRegister on which @events.fo_b(lazy=True) has just registered a
\* callback after an earlier registration for the same event.
C11_Witness ==
    /\ ~gsignals
    /\ lastattr.called /\ lastattr.attr = FOO_BAR /\ lastattr.form = "call" /\ lastattr.lazy
    /\ lastattr.outcome = "registered"
    /\ Len(EventList(FOO_BAR)) >= 2

----------------------------------------------------------------------------
(* C12 *)

\* The names the class declares: its __events__ and the keys of its __gsignals__
Declared == Range(klass.declared) \cup Range(klass.keys)

\* C12 as stated: on a GSignals object, connect(e, cb) and emit(e) raise
\* InvalidEvent exactly when e is neither declared by the class nor among
\* the names added so far by add_event / add_events.
C12_AddedEventsAllowed ==
    /\ [](gsignals =>
            \A f \in Frames :
                (f.exc = "InvalidEvent") <=> f.event \notin Declared \cup Range(added))
    /\ [][(gsignals /\ last' # last) =>
            (last'.raised <=> last'.event \notin Declared \cup Range(added))]_vars

\* C12 amended: the same, except that connect("all", cb) never raises.
C12_AddedEventsAllowedExceptAll ==
    /\ [](gsignals =>
            \A f \in Frames :
                (f.exc = "InvalidEvent") <=> f.event \notin Declared \cup Range(added))
    /\ [][(gsignals /\ last' # last) =>
            (last'.raised <=>
                (last'.event # ALL /\ last'.event \notin Declared \cup Range(added)))]_vars

\* Two names were added one after the other; connect of the name added
\* first was then accepted and emit of it is running.
C12_Witness ==
    /\ gsignals
    /\ Len(added) >= 2 /\ added[1] # added[2]
    /\ added[1] \notin Declared
    /\ last.called /\ last.event = added[1] /\ ~last.raised
    /\ \E f \in Frames : f.event = added[1] /\ f.exc = "" /\ f.calls # <<>>

----------------------------------------------------------------------------
(* C13 *)

\* The levels of the chain that declare name
DeclaringLevels(name) ==
    {level \in DOMAIN chain : \E k \in DOMAIN chain[level] : chain[level][k].name = name}

Nearest(name) == CHOOSE level \in DeclaringLevels(name) :
    \A l \in DeclaringLevels(name) : l <= level

\* C13: the fields mapping of an instance holds exactly the names declared
\* somewhere in the inheritance chain, each once, each mapped to the
\* declaration of the most-derived class that declares it.
C13_FieldsOfChain ==
    /\ \A name \in FieldNames :
          (IndexOf(config.fields, name) # 0) <=> (DeclaringLevels(name) # {})
    /\ \A i \in DOMAIN config.fields, j \in DOMAIN config.fields :
          config.fields[i].name = config.fields[j].name => i = j
    /\ \A i \in DOMAIN config.fields :
          /\ config.fields[i].level = Nearest(config.fields[i].name)
          /\ \E k \in DOMAIN chain[config.fields[i].level] :
                chain[config.fields[i].level][k] =
                    Declaration(config.fields[i].name, config.fields[i].type)

\* A chain of three classes declaring the three fields, one of them twice
\* with different types, and an instance constructed after a save exposes
\* all three.
C13_Witness ==
    /\ saved.done /\ config.fresh
    /\ Len(chain) = 3
    /\ \A level \in DOMAIN chain : chain[level] # <<>>
    /\ Len(config.fields) = 3
    /\ \E name \in FieldNames : Cardinality(DeclaringLevels(name)) = 2
    /\ \E i \in DOMAIN config.fields :
          config.fields[i].level = 3 /\ config.fields[i].type = "CharField"
             /\ config.fields[i].name = "field1_from_superclass"

----------------------------------------------------------------------------
(* C14 *)

\* C14: a fresh instance constructed after save() holds, for every field,
\* the value the saving instance held when it saved.
C14_SaveLoadRoundTrip ==
    (config.fresh /\ saved.done) =>
        /\ Len(config.fields) = Len(saved.fields)
        /\ \A i \in DOMAIN config.fields :
              /\ config.fields[i].name = saved.fields[i].name
              /\ config.fields[i].value = saved.fields[i].value

\* Values other than the defaults were assigned to an inherited field and
\* to a field of the leaf class and saved; a fresh instance exists.
C14_Witness ==
    /\ config.fresh /\ saved.done
    /\ \E i \in DOMAIN saved.fields, j \in DOMAIN saved.fields :
          /\ saved.fields[i].level < Len(chain)
          /\ saved.fields[j].level = Len(chain)
          /\ saved.fields[i].value # default(saved.fields[i].type)
          /\ saved.fields[j].value # default(saved.fields[j].type)

----------------------------------------------------------------------------
(* C15 *)

\* C15: the laziness of a registration is its own: a register_event call
\* that succeeds leaves the phase (immediate or lazy) in which every
\* callback registered before it is dispatched as it was.
C15_LazinessPerRegistration ==
    [][(last' # last /\ ~last'.raised) =>
          \A c \in RegisteredCallbacks : lazy'[c] = lazy[c]]_vars

----------------------------------------------------------------------------
(* C16 *)

\* The emit has invoked a callback that itself called emit
Reentered(f) == \E k \in DOMAIN f.calls : body[f.calls[k].func].kind = "emit"

\* C16: an emit called by a callback of a running emit is nested in it: the
\* outer emit does nothing until the inner one has ended, the inner one
\* completes (its immediate callbacks, the "all"-listeners, its lazy
\* callbacks), and the outer one then completes in the same way, each
\* callback once and in the order of emit. Stated for emissions during
\* which no callback registers anything.
C16_ReentrantEmitNested ==
    \A d \in DOMAIN stack :
        /\ d < Len(stack) =>
              /\ stack[d].pc \in {"events", "all", "lazy"}
              /\ stack[d].calls # <<>>
              /\ body[stack[d].calls[Len(stack[d].calls)].func].kind = "emit"
        /\ (Finished(stack[d]) /\ registered = <<>> /\ (d > 1 \/ Reentered(stack[d]))) =>
              /\ stack[d].pc = "done"
              /\ FuncsVia(stack[d], {"event"}) = NonLazyOf(EventList(stack[d].event))
              /\ FuncsVia(stack[d], {"all"}) = NonLazyOf(all_events_listener)
              /\ FuncsVia(stack[d], {"lazy"}) =
                     LazyOf(EventList(stack[d].event)) \o LazyOf(all_events_listener)
              /\ Before(stack[d], {"event"}, {"all"})
              /\ Before(stack[d], {"all"}, {"lazy"})

----------------------------------------------------------------------------
(* C17 *)

\* The calls of frame f after its first n calls
CalledAfter(f, n) == {f.calls[k].func : k \in (n + 1)..Len(f.calls)}

\* C17: when emit(e) has ended without a callback raising, every callback
\* that a callback of e registered for e as non-lazy during the loop over
\* the callbacks of e has been invoked by this emit after its registration,
\* and a callback registered for e during the lazy phase has not been
\* invoked by this emit after its registration.
C17_RegisteredDuringEmit ==
    \A d \in DOMAIN stack : \A j \in DOMAIN registered :
        (/\ Finished(stack[d])
         /\ stack[d].exc # "InvalidEvent"
         /\ registered[j].depth = d
         /\ registered[j].event = stack[d].event) =>
            /\ (registered[j].via = "event" /\ ~registered[j].lazy) =>
                  registered[j].callback \in CalledAfter(stack[d], registered[j].at)
            /\ registered[j].via = "lazy" =>
                  registered[j].callback \notin CalledAfter(stack[d], registered[j].at)

----------------------------------------------------------------------------
(* C18 *)

\* The names a register with this allow-list accepts (lines 115 and 133)
Accepted(list) == {event \in Names : event \in Range(list)}

\* C18: the names a GSignals object accepts are those its class declares
\* and those added to this very object, whatever was added to another
\* object of the class and whether or not another object was constructed
\* before or after.
C18_AllowListPerObject ==
    gsignals =>
        /\ Accepted(__events__) = Declared \cup Range(added)
        /\ other.constructed => Accepted(other.events) = Declared \cup Range(other.added)

\* A second object was constructed after a name was added to the first and
\* then got a name of its own; the two objects accept different names.
C18_Witness ==
    /\ gsignals /\ other.constructed
    /\ added # <<>> /\ other.added # <<>>
    /\ Range(added) \ Accepted(other.events) # {}
    /\ Range(other.added) \ Accepted(__events__) # {}

====
